---- MODULE Spec2Model ----
(***************************************************************************)
(* State-machine model of the sleep-schedule bot: the schedule store       *)
(* (database.py), the periodic poller check_schedules and the command      *)
(* handlers (bot.py).                                                      *)
(*                                                                         *)
(* Time is the wall clock in whole seconds.  Second 0 is 00:00:00 UTC of   *)
(* EpochDate.  A local datetime is the number of seconds since local       *)
(* midnight of EpochDate; a '%Y-%m-%d' string is the tuple <<Y, M, D>>     *)
(* and a 'HH:MM' string is the tuple <<H, M>> (both zero padded, so that   *)
(* string comparison is the lexicographic order of the tuples).            *)
(***************************************************************************)
EXTENDS Integers, Sequences, FiniteSets, TLC

\* ------------------------------------------------------------------ bounds
\* Number of poller ticks in a behaviour.
MaxTicks == 2
\* Number of command-handler invocations in a behaviour.
MaxCmds == 1

\* ------------------------------------------------------- program constants
REMINDER_MINUTES == 15
\* scheduler.add_job(check_schedules, 'interval', minutes=1): seconds
PollInterval == 60
\* timedelta(seconds=30): the shortest restriction the platform honours
MinMuteSeconds == 30

DaySecs == 24 * 60 * 60
DayMinutes == 24 * 60

\* ------------------------------------------------------------ the universe
Users == {1, 2}
Chats == {10, 20}
\* The delay between a nominal fire time and the tick's reading of the clock.
Jitters == {0, 1}
\* NULL of the store
NULL == <<>>

\* First calendar day of the model: Thursday 2026-10-29 (weekday() = 3,
\* Monday being 0), in a month of 31 days.
Epoch == [date |-> <<2026, 10, 29>>, weekday |-> 3]
EpochDate == Epoch.date
EpochWeekday == Epoch.weekday

\* ------------------------------------------------------ Time/Zone resolver
\* Timezone that falls back to UTC for a name it does not know
Timezone_Fallback(name) ==
    IF name = "Asia/Shanghai" THEN [ok |-> TRUE, offset |-> 8 * 60 * 60]
    ELSE [ok |-> TRUE, offset |-> 0]

\* pytz.timezone(name): the zone's UTC offset in seconds; "ok" is FALSE where
\* pytz raises UnknownTimeZoneError.
Timezone(name) ==
    IF name = "UTC" THEN [ok |-> TRUE, offset |-> 0]
    ELSE IF name = "Asia/Shanghai" THEN [ok |-> TRUE, offset |-> 8 * 60 * 60]
    ELSE [ok |-> FALSE, offset |-> 0]

\* tz_str in pytz.all_timezones
AllTimezones == {"UTC", "Asia/Shanghai"}

\* datetime.now(tz): local datetime for the UTC clock reading c
NowIn(tz, c) == c + Timezone(tz).offset

\* now.date() as a day number
DayOf(t) == t \div DaySecs

\* Days of each month of the years the model runs in (no leap year)
MonthDays == <<31, 28, 31, 30, 31, 30, 31, 31, 30, 31, 30, 31>>

\* The date <<y, m, dom>> with a day of the month past the month's end carried
\* into the following months
RECURSIVE Carry(_, _, _)
Carry(y, m, dom) ==
    IF dom <= MonthDays[m] THEN <<y, m, dom>>
    ELSE IF m = 12 THEN Carry(y + 1, 1, dom - MonthDays[m])
    ELSE Carry(y, m + 1, dom - MonthDays[m])

\* strftime('%Y-%m-%d') of day number d
DateStr(d) == Carry(EpochDate[1], EpochDate[2], EpochDate[3] + d)

\* now.strftime('%Y-%m-%d')
TodayStr(t) == DateStr(DayOf(t))

\* IsWeekend with the comparison off by one: Sunday only
IsWeekend_SundayOnly(t) == (EpochWeekday + DayOf(t)) % 7 > 5

\* now.weekday() >= 5
IsWeekend(t) == (EpochWeekday + DayOf(t)) % 7 >= 5

\* The minute of the day of a local datetime
MinuteOfDay(t) == (t % DaySecs) \div 60

\* time.strftime('%H:%M') of a minute of the day
HHMM(m) == <<m \div 60, m % 60>>

\* now.strftime('%H:%M')
NowHHMM(t) == HHMM(MinuteOfDay(t))

\* StrGT comparing the day of the month alone
StrGT_DayOnly(a, b) == a[3] > b[3]

\* Python's > on two date strings: lexicographic
StrGT(a, b) ==
    \/ a[1] > b[1]
    \/ a[1] = b[1] /\ a[2] > b[2]
    \/ a[1] = b[1] /\ a[2] = b[2] /\ a[3] > b[3]

\* Strptime that takes any two numbers, hours modulo 24 and minutes modulo 60
Strptime_Lenient(s) ==
    IF Len(s) = 2 THEN [ok |-> TRUE, hour |-> s[1] % 24, minute |-> s[2] % 60]
    ELSE [ok |-> FALSE, hour |-> 0, minute |-> 0]

\* datetime.strptime(s, '%H:%M').time(): "ok" is FALSE where it raises
\* ValueError or TypeError
Strptime(s) ==
    IF Len(s) = 2 /\ s[1] \in 0..23 /\ s[2] \in 0..59
    THEN [ok |-> TRUE, hour |-> s[1], minute |-> s[2]]
    ELSE [ok |-> FALSE, hour |-> 0, minute |-> 0]

\* re.compile(r'^([01]\d|2[0-3]):([0-5]\d)$').match(s)
TimePattern(s) == Len(s) = 2 /\ s[1] \in 0..23 /\ s[2] \in 0..59

\* ---------------------------------------------------------- Schedule store
VARIABLES
    store,      \* table schedules: a set of rows
    settings,   \* table group_settings: a set of rows
    clock,      \* the latest reading of the UTC wall clock, in seconds
    nominal,    \* the scheduler's next fire time of check_schedules
    ticks,      \* number of ticks started
    cmds,       \* number of command-handler invocations
    phase,      \* where check_schedules stands
    groups,     \* schedules_by_chat entries not yet begun
    rowq,       \* chat_schedules rows of the current chat not yet finished
    cur,        \* the current chat's chat_id and now
    hist,       \* what the poller did: a set of events
    conv,       \* the habit dialogue's state per (chat, user)
    user_data,  \* context.user_data per user
    last        \* the latest command: its inputs, its reply, the user's rows

vars == <<store, settings, clock, nominal, ticks, cmds, phase, groups, rowq, cur, hist,
          conv, user_data, last>>

\* One row of table schedules.
Row(user_id, chat_id, user_name, sleep_time, wake_time, plan_type, total_leave, used_leave, exempt_weekends, end_date, leave_until, reminder_sent) ==
    [user_id |-> user_id, chat_id |-> chat_id, user_name |-> user_name,
     sleep_time |-> sleep_time, wake_time |-> wake_time, is_muted |-> 0,
     plan_type |-> plan_type, leave_until |-> leave_until,
     habit_total_leave_days |-> total_leave, habit_used_leave_days |-> used_leave,
     habit_exempt_weekends |-> exempt_weekends, habit_end_date |-> end_date,
     reminder_sent_date |-> reminder_sent]

\* InsertOrReplace as a plain INSERT into a table without the primary key
InsertOrReplace_Keep(table, row) == table \cup {row}

\* INSERT OR REPLACE: the row replaces every row with the same primary key.
InsertOrReplace(table, row) ==
    {r \in table : r.user_id # row.user_id} \cup {row}

\* set_schedule: the columns the statement does not list take their defaults.
set_schedule(table, user_id, chat_id, user_name, sleep_time, wake_time) ==
    InsertOrReplace(table,
        Row(user_id, chat_id, user_name, sleep_time, wake_time, "normal",
            0, 0, FALSE, NULL, NULL, NULL))

\* set_full_habit_schedule
set_full_habit_schedule(table, user_id, chat_id, user_name, sleep_time, wake_time, total_leave, exempt_weekends, end_date) ==
    InsertOrReplace(table,
        Row(user_id, chat_id, user_name, sleep_time, wake_time, "habit",
            total_leave, 0, exempt_weekends, end_date, NULL, NULL))

\* get_schedule: the rows SELECT ... WHERE user_id = ? finds
get_schedule(table, user_id) == {r \in table : r.user_id = user_id}

\* remove_schedule: the table after DELETE
remove_schedule(table, user_id) == {r \in table : r.user_id # user_id}

\* update_reminder_sent: UPDATE schedules SET reminder_sent_date = ? WHERE user_id = ?
update_reminder_sent(table, user_id, date_str) ==
    {IF r.user_id = user_id THEN [r EXCEPT !.reminder_sent_date = date_str] ELSE r
        : r \in table}

\* apply_leave_day with the budget test off by one (<=), and with no budget test
apply_leave_day_Variant(table, user_id, date_str, off_by_one) ==
    LET found == get_schedule(table, user_id)
        schedule == CHOOSE r \in found : TRUE
        granted == [result |-> "success_habit",
                    table |-> {IF r.user_id = user_id
                               THEN [r EXCEPT !.leave_until = date_str,
                                              !.habit_used_leave_days = @ + 1]
                               ELSE r : r \in table}]
    IN  IF found = {} THEN [result |-> "no_plan", table |-> table]
        ELSE IF schedule.plan_type = "normal"
        THEN [result |-> "success_normal",
              table |-> {IF r.user_id = user_id
                         THEN [r EXCEPT !.leave_until = date_str] ELSE r : r \in table}]
        ELSE IF ~off_by_one THEN granted
        ELSE IF schedule.habit_used_leave_days <= schedule.habit_total_leave_days
        THEN granted
        ELSE [result |-> "no_days_left", table |-> table]

apply_leave_day_OffByOne(table, user_id, date_str) ==
    apply_leave_day_Variant(table, user_id, date_str, TRUE)

apply_leave_day_NoBudget(table, user_id, date_str) ==
    apply_leave_day_Variant(table, user_id, date_str, FALSE)

\* apply_leave_day: the result code and the table after it
apply_leave_day(table, user_id, date_str) ==
    LET found == get_schedule(table, user_id)
    IN  IF found = {} THEN [result |-> "no_plan", table |-> table]
        ELSE LET schedule == CHOOSE r \in found : TRUE
             IN  IF schedule.plan_type = "normal"
                 THEN [result |-> "success_normal",
                       table |-> {IF r.user_id = user_id
                                  THEN [r EXCEPT !.leave_until = date_str] ELSE r
                                     : r \in table}]
                 ELSE IF schedule.plan_type = "habit"
                 THEN IF schedule.habit_used_leave_days < schedule.habit_total_leave_days
                      THEN [result |-> "success_habit",
                            table |-> {IF r.user_id = user_id
                                       THEN [r EXCEPT !.leave_until = date_str,
                                                      !.habit_used_leave_days = @ + 1]
                                       ELSE r : r \in table}]
                      ELSE [result |-> "no_days_left", table |-> table]
                 ELSE [result |-> "no_plan", table |-> table]

\* One row of table group_settings with the column defaults.
DefaultSettings(chat_id) ==
    [chat_id |-> chat_id, timezone |-> "UTC", max_leave_days |-> 3,
     admin_can_break_habit |-> FALSE, admin_can_set_for_others |-> FALSE]

\* get_group_settings: the table after the lazy INSERT OR IGNORE
EnsureSettings(table, chat_id) ==
    IF \E g \in table : g.chat_id = chat_id THEN table
    ELSE table \cup {DefaultSettings(chat_id)}

\* get_group_settings: the row it returns
get_group_settings(table, chat_id) ==
    CHOOSE g \in EnsureSettings(table, chat_id) : g.chat_id = chat_id

\* set_group_timezone: INSERT ... ON CONFLICT(chat_id) DO UPDATE SET timezone
set_group_timezone(table, chat_id, timezone_str) ==
    IF \E g \in table : g.chat_id = chat_id
    THEN {IF g.chat_id = chat_id THEN [g EXCEPT !.timezone = timezone_str] ELSE g
            : g \in table}
    ELSE table \cup {[DefaultSettings(chat_id) EXCEPT !.timezone = timezone_str]}

\* ------------------------------------------------------------------ poller
\* SELECT * FROM schedules: the rows in primary-key order
RECURSIVE SortedRows(_)
SortedRows(table) ==
    IF table = {} THEN <<>>
    ELSE LET first == CHOOSE r \in table : \A q \in table : r.user_id <= q.user_id
         IN  <<first>> \o SortedRows(table \ {first})

\* The rows of one chat, in the order of rows
RECURSIVE RowsOfChat(_, _)
RowsOfChat(rows, chat_id) ==
    IF rows = <<>> THEN <<>>
    ELSE IF Head(rows).chat_id = chat_id
         THEN <<Head(rows)>> \o RowsOfChat(Tail(rows), chat_id)
         ELSE RowsOfChat(Tail(rows), chat_id)

\* schedules_by_chat: one entry per chat, in the order the chats first appear
RECURSIVE GroupByChat(_, _)
GroupByChat(rows, seen) ==
    IF rows = <<>> THEN <<>>
    ELSE IF Head(rows).chat_id \in seen THEN GroupByChat(Tail(rows), seen)
         ELSE <<[chat_id |-> Head(rows).chat_id,
                 rows |-> RowsOfChat(rows, Head(rows).chat_id)]>>
              \o GroupByChat(Tail(rows), seen \cup {Head(rows).chat_id})

\* reminder_time.strftime('%H:%M'): sleep time minus REMINDER_MINUTES, wrapping
\* at midnight
ReminderHHMM(sleep_time_obj) ==
    HHMM((sleep_time_obj.hour * 60 + sleep_time_obj.minute + DayMinutes - REMINDER_MINUTES)
            % DayMinutes)

\* WakeDatetime that never rolls forward
WakeDatetime_NoRoll(now, wake_time_obj) ==
    DayOf(now) * DaySecs + wake_time_obj.hour * 3600 + wake_time_obj.minute * 60

\* WakeDatetime that rolls forward only when the wake time is strictly before now
WakeDatetime_Strict(now, wake_time_obj) ==
    LET today_wake == WakeDatetime_NoRoll(now, wake_time_obj)
    IN  IF today_wake < now THEN today_wake + DaySecs ELSE today_wake

\* wake_datetime: today's date at wake time, second 0; the next day's when that
\* is not after now
WakeDatetime(now, wake_time_obj) ==
    LET today_wake == DayOf(now) * DaySecs
                        + wake_time_obj.hour * 3600 + wake_time_obj.minute * 60
    IN  IF today_wake <= now THEN today_wake + DaySecs ELSE today_wake

\* TooShort that catches only a wake time that is not after now
TooShort_NotAfter(now, wake_datetime) == wake_datetime - now <= 0

\* (wake_datetime - now) < timedelta(seconds=30)
TooShort(now, wake_datetime) == wake_datetime - now < MinMuteSeconds

\* The mute logic's decision for snapshot row s at local time now
MuteDecision(s, now) ==
    IF NowHHMM(now) # s.sleep_time THEN [kind |-> "none", until |-> 0]
    ELSE IF ~Strptime(s.wake_time).ok THEN [kind |-> "error", until |-> 0]
    ELSE LET wake_datetime == WakeDatetime(now, Strptime(s.wake_time))
         IN  IF TooShort(now, wake_datetime)
             THEN [kind |-> "too_short", until |-> wake_datetime]
             ELSE [kind |-> "mute", until |-> wake_datetime]

\* OnLeave that keeps the exemption from the leave date on
OnLeave_Since(s, now) == s.leave_until # NULL /\ ~StrGT(s.leave_until, TodayStr(now))

\* OnLeave that honours only a leave date after today
OnLeave_Future(s, now) == s.leave_until # NULL /\ StrGT(s.leave_until, TodayStr(now))

\* if schedule['leave_until'] == today_date_str
OnLeave(s, now) == s.leave_until = TodayStr(now)

\* habit plan, exempt on weekends, and today is a weekend day
WeekendExempt(s, now) ==
    s.plan_type = "habit" /\ s.habit_exempt_weekends /\ IsWeekend(now)

\* habit plan whose end date is set and before today
HabitExpired(s, now) ==
    /\ s.plan_type = "habit"
    /\ s.habit_end_date # NULL
    /\ StrGT(TodayStr(now), s.habit_end_date)

\* ReminderDue without the reminder_sent_date test
ReminderDue_NoDedupe(s, now) == NowHHMM(now) = ReminderHHMM(Strptime(s.sleep_time))

\* The reminder condition
ReminderDue(s, now) ==
    /\ NowHHMM(now) = ReminderHHMM(Strptime(s.sleep_time))
    /\ s.reminder_sent_date # TodayStr(now)

\* The poller between two suspensions: it runs without interruption from where
\* it stands to its next platform call (a phase await_...) or to the end of the
\* tick (phase idle).  A configuration holds the poller's variables and the
\* tables: [phase, store, settings, groups, rowq, cur, hist].

\* An event of the poller's history: what was done for snapshot row s in tick k
Ev(k, now, kind, s, until) ==
    [tick |-> k, user |-> s.user_id, kind |-> kind, row |-> s, now |-> now,
     until |-> until]

\* The configuration with the current schedule finished (the loop's continue)
NextSchedule(cfg) == [cfg EXCEPT !.rowq = Tail(@), !.phase = "sched"]

\* except Exception as e: logger.error(...): the loop goes on with the next
\* schedule
Caught_Abort(cfg) == [cfg EXCEPT !.rowq = <<>>, !.groups = <<>>, !.phase = "idle"]

Caught(cfg) == NextSchedule(cfg)

\* for chat_id, chat_schedules in schedules_by_chat.items(): the next chat's
\* settings, zone and local time
ChatBegin(cfg, k, clk) ==
    LET g == Head(cfg.groups)
        group_settings == get_group_settings(cfg.settings, g.chat_id)
        entered == [cfg EXCEPT !.settings = EnsureSettings(@, g.chat_id),
                               !.groups = Tail(@)]
    IN  IF Timezone(group_settings.timezone).ok
        THEN [entered EXCEPT !.cur = [chat_id |-> g.chat_id,
                                      now |-> NowIn(group_settings.timezone, clk),
                                      until |-> 0],
                             !.rowq = g.rows,
                             !.phase = "sched"]
        ELSE \* UnknownTimeZoneError: continue with the next chat
             [entered EXCEPT !.hist = @ \cup {Ev(k, clk, "skip_zone", g.rows[n], 0)
                                                : n \in 1..Len(g.rows)}]

\* The mute logic for the current schedule
MuteLogic(cfg, k) ==
    LET s == Head(cfg.rowq)
        d == MuteDecision(s, cfg.cur.now)
    IN  IF d.kind = "too_short"
        THEN [cfg EXCEPT !.phase = "await_short", !.cur.until = d.until,
                         !.hist = @ \cup {Ev(k, cfg.cur.now, "short_call", s, d.until)}]
        ELSE IF d.kind = "mute"
        THEN [cfg EXCEPT !.phase = "await_restrict", !.cur.until = d.until,
                         !.hist = @ \cup {Ev(k, cfg.cur.now, "restrict_call", s, d.until)}]
        ELSE IF d.kind = "error"
        THEN \* ValueError of strptime, caught by except Exception
             Caught([cfg EXCEPT !.hist = @ \cup {Ev(k, cfg.cur.now, "mute_error", s, 0)}])
        ELSE NextSchedule([cfg EXCEPT
                             !.hist = @ \cup {Ev(k, cfg.cur.now, "no_mute", s, 0)}])

\* SchedStep with the expiry test ahead of the leave and weekend tests
SchedStep_ExpiryFirst(cfg, k) ==
    LET s == Head(cfg.rowq)
        now == cfg.cur.now
    IN  IF HabitExpired(s, now)
        THEN NextSchedule(
                [cfg EXCEPT !.store = set_schedule(@, s.user_id, cfg.cur.chat_id,
                                                   s.user_name, s.sleep_time, s.wake_time),
                            !.hist = @ \cup {Ev(k, now, "convert", s, 0)}])
        ELSE IF OnLeave(s, now)
        THEN NextSchedule([cfg EXCEPT !.hist = @ \cup {Ev(k, now, "skip_leave", s, 0)}])
        ELSE IF WeekendExempt(s, now)
        THEN NextSchedule([cfg EXCEPT !.hist = @ \cup {Ev(k, now, "skip_weekend", s, 0)}])
        ELSE IF ~Strptime(s.sleep_time).ok
        THEN NextSchedule([cfg EXCEPT !.hist = @ \cup {Ev(k, now, "bad_time", s, 0)}])
        ELSE IF ReminderDue(s, now)
        THEN [cfg EXCEPT !.phase = "await_reminder",
                         !.hist = @ \cup {Ev(k, now, "reminder_call", s, 0)}]
        ELSE MuteLogic(cfg, k)

\* for schedule in chat_schedules: the current schedule, up to its first
\* platform call
SchedStep(cfg, k) ==
    LET s == Head(cfg.rowq)
        now == cfg.cur.now
    IN  IF OnLeave(s, now)
        THEN NextSchedule([cfg EXCEPT !.hist = @ \cup {Ev(k, now, "skip_leave", s, 0)}])
        ELSE IF WeekendExempt(s, now)
        THEN NextSchedule([cfg EXCEPT !.hist = @ \cup {Ev(k, now, "skip_weekend", s, 0)}])
        ELSE IF HabitExpired(s, now)
        THEN NextSchedule(
                [cfg EXCEPT !.store = set_schedule(@, s.user_id, cfg.cur.chat_id,
                                                   s.user_name, s.sleep_time, s.wake_time),
                            !.hist = @ \cup {Ev(k, now, "convert", s, 0)}])
        ELSE IF ~Strptime(s.sleep_time).ok
        THEN NextSchedule([cfg EXCEPT !.hist = @ \cup {Ev(k, now, "bad_time", s, 0)}])
        ELSE IF ReminderDue(s, now)
        THEN [cfg EXCEPT !.phase = "await_reminder",
                         !.hist = @ \cup {Ev(k, now, "reminder_call", s, 0)}]
        ELSE MuteLogic(cfg, k)

\* The poller's run from configuration cfg to its next suspension
RECURSIVE Run(_, _, _)
Run(cfg, k, clk) ==
    IF cfg.phase = "chat"
    THEN IF cfg.groups = <<>> THEN [cfg EXCEPT !.phase = "idle"]
         ELSE Run(ChatBegin(cfg, k, clk), k, clk)
    ELSE IF cfg.phase = "sched"
    THEN IF cfg.rowq = <<>> THEN Run([cfg EXCEPT !.phase = "chat"], k, clk)
         ELSE Run(SchedStep(cfg, k), k, clk)
    ELSE cfg

\* The poller's variables and the tables as a configuration
Config ==
    [phase |-> phase, store |-> store, settings |-> settings, groups |-> groups,
     rowq |-> rowq, cur |-> cur, hist |-> hist]

\* The poller and the tables move to configuration cfg
Becomes(cfg) ==
    /\ phase' = cfg.phase
    /\ store' = cfg.store
    /\ settings' = cfg.settings
    /\ groups' = cfg.groups
    /\ rowq' = cfg.rowq
    /\ cur' = cfg.cur
    /\ hist' = cfg.hist

\* The scheduler fires check_schedules: the schedules are read and grouped, and
\* the loop runs to its first platform call.
TickBegin ==
    /\ phase = "idle"
    /\ ticks < MaxTicks
    /\ \E j \in Jitters :
         /\ clock' = nominal + j
         /\ Becomes(Run([Config EXCEPT !.phase = "chat",
                                       !.groups = GroupByChat(SortedRows(store), {})],
                        ticks + 1, nominal + j))
    /\ nominal' = nominal + PollInterval
    /\ ticks' = ticks + 1
    /\ UNCHANGED <<cmds, conv, user_data, last>>

\* ReminderOutcome that marks the reminder as sent whether or not it was
ReminderOutcome_MarkAnyway(cfg, k, ok) ==
    LET s == Head(cfg.rowq)
    IN  [cfg EXCEPT !.store = update_reminder_sent(@, s.user_id, TodayStr(cfg.cur.now)),
                    !.hist = IF ok THEN @ \cup {Ev(k, cfg.cur.now, "reminder_ok", s, 0)}
                             ELSE @]

\* The try block of the reminder once send_message has returned (ok) or raised:
\* the date is marked only after a successful send
ReminderOutcome(cfg, k, ok) ==
    LET s == Head(cfg.rowq)
    IN  IF ok
        THEN [cfg EXCEPT
                !.store = update_reminder_sent(@, s.user_id, TodayStr(cfg.cur.now)),
                !.hist = @ \cup {Ev(k, cfg.cur.now, "reminder_ok", s, 0)}]
        ELSE cfg

\* The reminder's send_message returns or raises; then the mute logic runs.
ReminderDone ==
    /\ phase = "await_reminder"
    /\ \E ok \in BOOLEAN :
         Becomes(Run(MuteLogic(ReminderOutcome(Config, ticks, ok), ticks), ticks, clock))
    /\ UNCHANGED <<clock, nominal, ticks, cmds, conv, user_data, last>>

\* The reminder's send_message returns but the store write after it raises: the
\* exception is caught like a failed send, and the mute logic runs.
ReminderUnrecorded ==
    /\ phase = "await_reminder"
    /\ LET sent == [Config EXCEPT
                      !.hist = @ \cup {Ev(ticks, cur.now, "reminder_unmarked",
                                          Head(rowq), 0)}]
       IN  Becomes(Run(MuteLogic(sent, ticks), ticks, clock))
    /\ UNCHANGED <<clock, nominal, ticks, cmds, conv, user_data, last>>

\* The 'too short' notice's send_message returns or raises: next schedule.
ShortDone ==
    /\ phase = "await_short"
    /\ \E ok \in BOOLEAN :
         LET told == [Config EXCEPT
                        !.hist = @ \cup {Ev(ticks, cur.now, "short_ok", Head(rowq),
                                            cur.until)}]
         IN  Becomes(Run(IF ok THEN NextSchedule(told) ELSE Caught(Config), ticks, clock))
    /\ UNCHANGED <<clock, nominal, ticks, cmds, conv, user_data, last>>

\* restrict_chat_member returns, and the good-night message is sent, or raises.
RestrictDone ==
    /\ phase = "await_restrict"
    /\ \E ok \in BOOLEAN :
         LET muted == [Config EXCEPT
                         !.phase = "await_mute_msg",
                         !.hist = @ \cup {Ev(ticks, cur.now, "restrict_ok", Head(rowq),
                                             cur.until)}]
         IN  Becomes(IF ok THEN muted ELSE Run(Caught(Config), ticks, clock))
    /\ UNCHANGED <<clock, nominal, ticks, cmds, conv, user_data, last>>

\* The good-night message's send_message returns or raises: next schedule.
MuteMsgDone ==
    /\ phase = "await_mute_msg"
    /\ \E ok \in BOOLEAN :
         LET told == [Config EXCEPT
                        !.hist = @ \cup {Ev(ticks, cur.now, "mute_msg_ok", Head(rowq),
                                            cur.until)}]
         IN  Becomes(Run(IF ok THEN NextSchedule(told) ELSE Caught(Config), ticks, clock))
    /\ UNCHANGED <<clock, nominal, ticks, cmds, conv, user_data, last>>

\* check_schedules, one uninterrupted stretch of it
Tick ==
    \/ TickBegin
    \/ ReminderDone
    \/ ShortDone
    \/ RestrictDone
    \/ MuteMsgDone

\* ---------------------------------------------------------------- commands
\* user.first_name
FirstName(u) == <<"user", u>>

\* Roles get_chat_administrators can report for the sender
Roles == {"creator", "administrator", "member"}

\* An empty context.user_data
NoUserData == [habit_times |-> NULL, habit_duration |-> -1, habit_leave_days |-> -1]

\* A handler may run while the poller is idle or suspended in a platform call.
Suspended == phase \in {"idle", "await_reminder", "await_short", "await_restrict",
                        "await_mute_msg"}

CmdEnabled == Suspended /\ cmds < MaxCmds

\* The record of a command: the reply, the rows of user `about` before and
\* after it, and (arg) the date a /leave applied, or the sender's role and
\* the chat of an /admin_remove
Reply(cmd, result, about, after) ==
    [cmd |-> cmd, result |-> result, arg |-> NULL,
     before |-> get_schedule(store, about), after |-> get_schedule(after, about)]

\* The record of a command that concerns no schedule
Plain(cmd, result) ==
    [cmd |-> cmd, result |-> result, arg |-> NULL, before |-> {}, after |-> {}]

PollerUnchanged == UNCHANGED <<clock, nominal, ticks, phase, groups, rowq, cur, hist>>

\* The updates /init is tried with: where it is sent, the sender's role in the
\* chat, the arguments
InitInputs ==
    { [private |-> TRUE, role |-> "creator", args |-> <<"UTC">>],
      [private |-> FALSE, role |-> "administrator", args |-> <<"UTC">>],
      [private |-> FALSE, role |-> "creator", args |-> <<>>],
      [private |-> FALSE, role |-> "creator", args |-> <<"Mars/Olympus">>],
      [private |-> FALSE, role |-> "creator", args |-> <<"UTC">>],
      [private |-> FALSE, role |-> "creator", args |-> <<"Asia/Shanghai">>] }

\* /init <timezone>
init_command ==
    /\ CmdEnabled
    /\ \E u \in Users, c \in Chats, in \in InitInputs :
         LET result == IF in.private THEN "private"
                       ELSE IF in.role # "creator" THEN "not_owner"
                       ELSE IF Len(in.args) # 1 THEN "usage"
                       ELSE IF in.args[1] \notin AllTimezones THEN "unknown_timezone"
                       ELSE "ok"
         IN  /\ settings' = IF result = "ok"
                            THEN set_group_timezone(settings, c, in.args[1]) ELSE settings
             /\ last' = Plain("init", result)
    /\ cmds' = cmds + 1
    /\ UNCHANGED <<store, conv, user_data>>
    /\ PollerUnchanged

\* /settings
settings_command ==
    /\ CmdEnabled
    /\ \E u \in Users, c \in Chats, private \in BOOLEAN :
         /\ settings' = IF private THEN settings ELSE EnsureSettings(settings, c)
         /\ last' = Plain("settings", IF private THEN "private" ELSE "ok")
    /\ cmds' = cmds + 1
    /\ UNCHANGED <<store, conv, user_data>>
    /\ PollerUnchanged

\* /leave
leave_command ==
    /\ CmdEnabled
    /\ \E u \in Users, c \in Chats, private \in BOOLEAN :
         IF private
         THEN /\ last' = Reply("leave", "private", u, store)
              /\ UNCHANGED <<store, settings>>
         ELSE LET group_settings == get_group_settings(settings, c)
                  today_str == TodayStr(NowIn(group_settings.timezone, clock))
                  applied == apply_leave_day(store, u, today_str)
              IN  /\ settings' = EnsureSettings(settings, c)
                  /\ IF Timezone(group_settings.timezone).ok
                     THEN /\ store' = applied.table
                          /\ last' = [Reply("leave", applied.result, u, applied.table)
                                        EXCEPT !.arg = today_str]
                     ELSE /\ UNCHANGED store
                          /\ last' = Reply("leave", "raised", u, store)
    /\ cmds' = cmds + 1
    /\ UNCHANGED <<conv, user_data>>
    /\ PollerUnchanged

\* The updates /set is tried with
SetInputs ==
    { [private |-> TRUE, role |-> "member", args |-> << <<23, 1>>, <<7, 0>> >>],
      [private |-> FALSE, role |-> "creator", args |-> << <<23, 1>>, <<7, 0>> >>],
      [private |-> FALSE, role |-> "member", args |-> << <<23, 1>> >>],
      [private |-> FALSE, role |-> "member", args |-> << <<24, 0>>, <<7, 0>> >>],
      [private |-> FALSE, role |-> "administrator", args |-> << <<23, 1>>, <<7, 0>> >>] }

\* /set HH:MM HH:MM
set_sleep ==
    /\ CmdEnabled
    /\ \E u \in Users, c \in Chats, in \in SetInputs :
         LET schedule == get_schedule(store, u)
             result == IF in.private THEN "private"
                       ELSE IF \E r \in schedule : r.plan_type = "habit" THEN "habit_locked"
                       ELSE IF in.role = "creator" THEN "owner"
                       ELSE IF Len(in.args) # 2 THEN "usage"
                       ELSE IF ~TimePattern(in.args[1]) \/ ~TimePattern(in.args[2])
                       THEN "bad_format"
                       ELSE "ok"
             after == IF result = "ok"
                      THEN set_schedule(store, u, c, FirstName(u), in.args[1], in.args[2])
                      ELSE store
         IN  /\ store' = after
             /\ last' = Reply("set", result, u, after)
    /\ cmds' = cmds + 1
    /\ UNCHANGED <<settings, conv, user_data>>
    /\ PollerUnchanged

\* /remove
remove_schedule_command ==
    /\ CmdEnabled
    /\ \E u \in Users :
         LET schedule == get_schedule(store, u)
             locked == \E r \in schedule : r.plan_type = "habit"
             after == IF locked THEN store ELSE remove_schedule(store, u)
             result == IF locked THEN "habit_locked"
                       ELSE IF Cardinality(schedule) > 0 THEN "removed" ELSE "nothing"
         IN  /\ store' = after
             /\ last' = Reply("remove", result, u, after)
    /\ cmds' = cmds + 1
    /\ UNCHANGED <<settings, conv, user_data>>
    /\ PollerUnchanged

\* The updates /admin_remove is tried with: is_reply says whether it replies to
\* a message (of `target`)
AdminRemoveInputs ==
    { [private |-> TRUE, role |-> "creator", is_reply |-> TRUE],
      [private |-> FALSE, role |-> "member", is_reply |-> TRUE],
      [private |-> FALSE, role |-> "administrator", is_reply |-> TRUE],
      [private |-> FALSE, role |-> "creator", is_reply |-> FALSE],
      [private |-> FALSE, role |-> "creator", is_reply |-> TRUE] }

\* MayBreakHabit that lets every administrator through
MayBreakHabit_AnyAdmin(role, group_settings) == role \in {"creator", "administrator"}

\* is_owner or (is_admin and settings['admin_can_break_habit'])
MayBreakHabit(role, group_settings) ==
    LET is_owner == role = "creator"
        is_admin == role \in {"creator", "administrator"}
    IN  is_owner \/ (is_admin /\ group_settings.admin_can_break_habit)

\* /admin_remove
admin_remove_command ==
    /\ CmdEnabled
    /\ \E u \in Users, c \in Chats, in \in AdminRemoveInputs, target \in Users :
         IF in.private
         THEN /\ last' = Reply("admin_remove", "private", target, store)
              /\ UNCHANGED <<store, settings>>
         ELSE LET group_settings == get_group_settings(settings, c)
                  result == IF ~MayBreakHabit(in.role, group_settings)
                            THEN "denied"
                            ELSE IF ~in.is_reply THEN "no_target"
                            ELSE IF get_schedule(store, target) # {} THEN "removed"
                            ELSE "nothing"
                  after == IF result = "removed" THEN remove_schedule(store, target)
                           ELSE store
              IN  /\ settings' = EnsureSettings(settings, c)
                  /\ store' = after
                  /\ last' = [Reply("admin_remove", result, target, after)
                                EXCEPT !.arg = [role |-> in.role, chat_id |-> c]]
    /\ cmds' = cmds + 1
    /\ UNCHANGED <<conv, user_data>>
    /\ PollerUnchanged

\* ---------------------------------------------------------- habit dialogue
\* The durations and leave budgets of the inline keyboards that the model offers
HabitDurations == {7, 0}
LeaveChoices == {0, 1}

\* /habit: entry point of the conversation
start_habit ==
    /\ CmdEnabled
    /\ \E u \in Users, c \in Chats :
         /\ conv[<<c, u>>] = "END"
         /\ conv' = [conv EXCEPT ![<<c, u>>] = "GET_HABIT_TIMES"]
         /\ last' = Reply("habit", "GET_HABIT_TIMES", u, store)
    /\ cmds' = cmds + 1
    /\ UNCHANGED <<store, settings, user_data>>
    /\ PollerUnchanged

\* get_habit_times that keeps the words of a message it turns down
get_habit_times_Lenient ==
    /\ CmdEnabled
    /\ \E u \in Users, c \in Chats,
          times \in {<< <<23, 0>>, <<7, 0>> >>, << <<23, 0>> >>, << <<24, 0>>, <<7, 0>> >>} :
         /\ conv[<<c, u>>] = "GET_HABIT_TIMES"
         /\ user_data' = [user_data EXCEPT ![u].habit_times = times]
         /\ IF Len(times) # 2 \/ \E n \in 1..Len(times) : ~TimePattern(times[n])
            THEN /\ last' = Reply("habit_times", "GET_HABIT_TIMES", u, store)
                 /\ UNCHANGED conv
            ELSE /\ conv' = [conv EXCEPT ![<<c, u>>] = "GET_HABIT_DURATION"]
                 /\ last' = Reply("habit_times", "GET_HABIT_DURATION", u, store)
    /\ cmds' = cmds + 1
    /\ UNCHANGED <<store, settings>>
    /\ PollerUnchanged

\* A text message in state GET_HABIT_TIMES
get_habit_times ==
    /\ CmdEnabled
    /\ \E u \in Users, c \in Chats,
          times \in {<< <<23, 0>>, <<7, 0>> >>, << <<23, 0>> >>, << <<24, 0>>, <<7, 0>> >>} :
         /\ conv[<<c, u>>] = "GET_HABIT_TIMES"
         /\ IF Len(times) # 2 \/ \E n \in 1..Len(times) : ~TimePattern(times[n])
            THEN /\ last' = Reply("habit_times", "GET_HABIT_TIMES", u, store)
                 /\ UNCHANGED <<conv, user_data>>
            ELSE /\ user_data' = [user_data EXCEPT ![u].habit_times = times]
                 /\ conv' = [conv EXCEPT ![<<c, u>>] = "GET_HABIT_DURATION"]
                 /\ last' = Reply("habit_times", "GET_HABIT_DURATION", u, store)
    /\ cmds' = cmds + 1
    /\ UNCHANGED <<store, settings>>
    /\ PollerUnchanged

\* A button of the duration keyboard
get_habit_duration ==
    /\ CmdEnabled
    /\ \E u \in Users, c \in Chats, data \in HabitDurations :
         /\ conv[<<c, u>>] = "GET_HABIT_DURATION"
         /\ user_data' = [user_data EXCEPT ![u].habit_duration = data]
         /\ conv' = [conv EXCEPT ![<<c, u>>] = "GET_LEAVE_DAYS"]
         /\ last' = Reply("habit_duration", "GET_LEAVE_DAYS", u, store)
    /\ cmds' = cmds + 1
    /\ UNCHANGED <<store, settings>>
    /\ PollerUnchanged

\* A button of the leave-days keyboard
get_leave_days ==
    /\ CmdEnabled
    /\ \E u \in Users, c \in Chats, data \in LeaveChoices :
         /\ conv[<<c, u>>] = "GET_LEAVE_DAYS"
         /\ user_data' = [user_data EXCEPT ![u].habit_leave_days = data]
         /\ conv' = [conv EXCEPT ![<<c, u>>] = "GET_WEEKEND_OPTION"]
         /\ last' = Reply("habit_leave_days", "GET_WEEKEND_OPTION", u, store)
    /\ cmds' = cmds + 1
    /\ UNCHANGED <<store, settings>>
    /\ PollerUnchanged

\* A button of the weekend keyboard: the habit schedule is written.
get_weekend_option ==
    /\ CmdEnabled
    /\ \E u \in Users, c \in Chats, data \in {0, 1} :
         /\ conv[<<c, u>>] = "GET_WEEKEND_OPTION"
         /\ LET d == user_data[u]
                group_settings == get_group_settings(settings, c)
            IN  IF d.habit_times = NULL \/ d.habit_duration < 0 \/ d.habit_leave_days < 0
                THEN \* KeyError: the handler raises, the conversation stays
                     /\ last' = Reply("habit_weekend", "raised", u, store)
                     /\ UNCHANGED <<store, settings, conv, user_data>>
                ELSE IF d.habit_duration > 0 /\ ~Timezone(group_settings.timezone).ok
                THEN /\ settings' = EnsureSettings(settings, c)
                     /\ last' = Reply("habit_weekend", "raised", u, store)
                     /\ UNCHANGED <<store, conv, user_data>>
                ELSE LET end_date_str ==
                             IF d.habit_duration > 0
                             THEN DateStr(DayOf(NowIn(group_settings.timezone, clock))
                                            + d.habit_duration)
                             ELSE NULL
                         after == set_full_habit_schedule(store, u, c, FirstName(u),
                                     d.habit_times[1], d.habit_times[2],
                                     d.habit_leave_days, data = 1, end_date_str)
                     IN  /\ settings' = IF d.habit_duration > 0
                                        THEN EnsureSettings(settings, c) ELSE settings
                         /\ store' = after
                         /\ user_data' = [user_data EXCEPT ![u] = NoUserData]
                         /\ conv' = [conv EXCEPT ![<<c, u>>] = "END"]
                         /\ last' = Reply("habit_weekend", "END", u, after)
    /\ cmds' = cmds + 1
    /\ PollerUnchanged

\* /cancel: fallback of the conversation
cancel_habit ==
    /\ CmdEnabled
    /\ \E u \in Users, c \in Chats :
         /\ conv[<<c, u>>] # "END"
         /\ user_data' = [user_data EXCEPT ![u] = NoUserData]
         /\ conv' = [conv EXCEPT ![<<c, u>>] = "END"]
         /\ last' = Reply("cancel", "END", u, store)
    /\ cmds' = cmds + 1
    /\ UNCHANGED <<store, settings>>
    /\ PollerUnchanged

Command ==
    \/ init_command
    \/ settings_command
    \/ leave_command
    \/ set_sleep
    \/ remove_schedule_command
    \/ admin_remove_command
    \/ start_habit
    \/ get_habit_times
    \/ get_habit_duration
    \/ get_leave_days
    \/ get_weekend_option
    \/ cancel_habit

\* ------------------------------------------------------------ initial states
\* Schedules the store may hold when the process starts: plans written by
\* /set or by a completed habit dialogue, some with leave taken or a reminder
\* marked on an earlier day.
NormalRow(u, c, sleep_time, wake_time, leave_until, reminder_sent) ==
    Row(u, c, FirstName(u), sleep_time, wake_time, "normal", 0, 0, FALSE, NULL,
        leave_until, reminder_sent)

HabitRow(u, c, sleep_time, wake_time, total, used, exempt, end_date, leave_until) ==
    Row(u, c, FirstName(u), sleep_time, wake_time, "habit", total, used, exempt,
        end_date, leave_until, NULL)

InitRows(u, c) ==
    { NormalRow(u, c, <<23, 0>>, <<7, 0>>, NULL, NULL),
      NormalRow(u, c, <<23, 15>>, <<7, 0>>, NULL, DateStr(0)),
      NormalRow(u, c, <<23, 0>>, <<23, 0>>, NULL, NULL),
      NormalRow(u, c, <<23, 0>>, <<23, 1>>, NULL, NULL),
      NormalRow(u, c, <<23, 0>>, <<7, 0>>, DateStr(1), NULL),
      NormalRow(u, c, <<7, 0>>, <<7, 1>>, NULL, NULL),
      NormalRow(u, c, <<7, 0>>, <<23, 0>>, DateStr(2), NULL),
      HabitRow(u, c, <<23, 0>>, <<7, 0>>, 3, 2, TRUE, NULL, NULL),
      HabitRow(u, c, <<23, 0>>, <<7, 0>>, 1, 1, FALSE, DateStr(0), DateStr(0)),
      HabitRow(u, c, <<23, 0>>, <<7, 0>>, 1, 1, FALSE, DateStr(0), DateStr(1)),
      HabitRow(u, c, <<23, 15>>, <<7, 0>>, 3, 0, TRUE, DateStr(2), NULL),
      HabitRow(u, c, <<7, 0>>, <<23, 0>>, 1, 0, TRUE, DateStr(1), NULL),
      HabitRow(u, c, <<7, 15>>, <<23, 0>>, 1, 0, FALSE, DateStr(9), NULL) }

\* The tables at the start: at most one row per user, user 1 in chat 10
InitStores ==
    { r1 \cup r2 :
        r1 \in {{}} \cup {{r} : r \in InitRows(1, 10)},
        r2 \in {{}} \cup {{r} : r \in InitRows(2, 10) \cup InitRows(2, 20)} }

\* group_settings at the start: both chats have their row, chat 20 in either zone
InitSettings ==
    { {DefaultSettings(10), [DefaultSettings(20) EXCEPT !.timezone = tz]} :
        tz \in AllTimezones }

\* The scheduler's first fire time: 22:59:59 UTC or 23:59:59 UTC, on Friday
\* 2026-10-30 or on Sunday 2026-11-01
StartClocks ==
    { d * DaySecs + h * 3600 + 59 * 60 + 59 : d \in {1, 3}, h \in {22, 23} }

\* Habit dialogues in progress at the start: none, or user 2 in chat 10
InitDialogues ==
    { [state |-> "GET_HABIT_TIMES", data |-> NoUserData],
      [state |-> "GET_LEAVE_DAYS",
       data |-> [habit_times |-> << <<23, 0>>, <<7, 0>> >>, habit_duration |-> 0,
                 habit_leave_days |-> -1]],
      [state |-> "GET_HABIT_DURATION",
       data |-> [NoUserData EXCEPT !.habit_times = << <<23, 0>>, <<7, 0>> >>]],
      [state |-> "GET_WEEKEND_OPTION",
       data |-> [habit_times |-> << <<23, 0>>, <<7, 0>> >>, habit_duration |-> 7,
                 habit_leave_days |-> 1]] }

NoCommand == Plain("none", "none")

\* The state after construction, but for the tables and the clock
InitRest ==
    /\ clock = nominal - PollInterval
    /\ ticks = 0
    /\ cmds = 0
    /\ phase = "idle"
    /\ groups = <<>>
    /\ rowq = <<>>
    /\ cur = [chat_id |-> 10, now |-> 0, until |-> 0]
    /\ hist = {}
    /\ last = NoCommand

NoDialogue ==
    /\ conv = [k \in Chats \X Users |-> "END"]
    /\ user_data = [u \in Users |-> NoUserData]

\* Start of the poller's runs: any of the stores, zones and fire times
InitPoller ==
    /\ store \in InitStores
    /\ settings \in InitSettings
    /\ nominal \in StartClocks
    /\ NoDialogue
    /\ InitRest

\* The scheduler's first fire time in the program's runs: 22:59:59 UTC on
\* Friday 2026-10-30, or 23:58:59 UTC that day or on Sunday 2026-11-01
Evening == DaySecs + 22 * 3600 + 59 * 60 + 59
BeforeMidnight == DaySecs + 23 * 3600 + 58 * 60 + 59
SundayNight == 3 * DaySecs + 23 * 3600 + 58 * 60 + 59

\* group_settings with the column defaults, and with chat 20 letting its
\* administrators break habits
PlainSettings == {DefaultSettings(c) : c \in Chats}
LenientSettings ==
    {DefaultSettings(10), [DefaultSettings(20) EXCEPT !.admin_can_break_habit = TRUE]}

\* Start of the program's runs: user 1 with a plan in chat 10; user 2 with a
\* plan, or without one and in a habit dialogue; or user 1, who has a habit
\* plan, at the last step of a habit dialogue entered with /habit; or, shortly
\* before midnight, user 1 with a plan for midnight and user 2 on leave today;
\* or, shortly before the midnight that ends a weekend, user 1 with a plan for
\* midnight and user 2 with a weekend-exempt habit plan that ended on Friday,
\* at the last step of a new habit dialogue
Init ==
    /\ \/ /\ store = { NormalRow(1, 10, <<23, 0>>, <<23, 1>>, NULL, NULL),
                       NormalRow(2, 10, <<23, 15>>, <<7, 0>>, NULL, DateStr(0)) }
          /\ settings = PlainSettings
          /\ nominal = Evening
          /\ NoDialogue
       \/ /\ store = { HabitRow(1, 10, <<7, 0>>, <<23, 0>>, 3, 2, TRUE, NULL, NULL),
                       HabitRow(2, 10, <<23, 0>>, <<7, 0>>, 1, 1, FALSE, DateStr(0),
                                DateStr(0)) }
          /\ settings = LenientSettings
          /\ nominal = Evening
          /\ NoDialogue
       \/ /\ store = {HabitRow(1, 10, <<7, 0>>, <<23, 0>>, 3, 2, TRUE, NULL, NULL)}
          /\ settings = PlainSettings
          /\ nominal = Evening
          /\ \E dlg \in InitDialogues, who \in Users :
               /\ who = 2 \/ dlg.state = "GET_WEEKEND_OPTION"
               /\ conv = [k \in Chats \X Users |->
                              IF k = <<10, who>> THEN dlg.state ELSE "END"]
               /\ user_data = [u \in Users |-> IF u = who THEN dlg.data ELSE NoUserData]
       \/ /\ store = { NormalRow(1, 10, <<0, 0>>, <<7, 0>>, NULL, NULL),
                       NormalRow(2, 10, <<7, 0>>, <<23, 0>>, DateStr(1), NULL) }
          /\ settings = PlainSettings
          /\ nominal = BeforeMidnight
          /\ NoDialogue
       \/ /\ store = { NormalRow(1, 10, <<0, 0>>, <<7, 0>>, NULL, NULL),
                       HabitRow(2, 10, <<7, 0>>, <<23, 0>>, 1, 0, TRUE, DateStr(1), NULL) }
          /\ settings = PlainSettings
          /\ nominal = SundayNight
          /\ conv = [k \in Chats \X Users |->
                         IF k = <<10, 2>> THEN "GET_WEEKEND_OPTION" ELSE "END"]
          /\ user_data = [u \in Users |->
                              IF u = 2
                              THEN [habit_times |-> << <<23, 0>>, <<7, 0>> >>,
                                    habit_duration |-> 7, habit_leave_days |-> 1]
                              ELSE NoUserData]
    /\ InitRest

\* Tables with damaged content, as an earlier release, a changed zone database
\* or a manual edit can leave them: a time that is not HH:MM, a zone name pytz
\* does not know.  Every user has a schedule, user 2 in chat 10.
DamagedRows(u, c) ==
    { NormalRow(u, c, <<23, 0>>, <<7, 0>>, NULL, NULL),
      NormalRow(u, c, <<23, 15>>, <<7, 0>>, NULL, NULL),
      NormalRow(u, c, <<23, 0>>, <<23, 1>>, NULL, NULL),
      NormalRow(u, c, <<23, 0>>, <<24, 0>>, NULL, NULL),
      NormalRow(u, c, <<24, 0>>, <<7, 0>>, NULL, NULL),
      HabitRow(u, c, <<23, 0>>, <<24, 0>>, 1, 0, FALSE, DateStr(0), NULL) }

InitDamaged ==
    /\ \E c1 \in Chats :
         \E r1 \in DamagedRows(1, c1), r2 \in DamagedRows(2, 10) : store = {r1, r2}
    /\ \E tz1 \in {"UTC", "Mars/Olympus"}, tz2 \in {"UTC", "Mars/Olympus"} :
         settings = {[DefaultSettings(10) EXCEPT !.timezone = tz1],
                     [DefaultSettings(20) EXCEPT !.timezone = tz2]}
    /\ nominal = DaySecs + 22 * 3600 + 59 * 60 + 59
    /\ NoDialogue
    /\ InitRest

Next == Tick \/ Command

\* The poller over damaged tables, with store writes that may fail, while the
\* chat's creator may set the zone with /init
NextDamaged == Tick \/ ReminderUnrecorded \/ init_command

\* The program: poller ticks interleaved with command handlers
Spec == Init /\ [][Next]_vars

\* The poller alone: any sequence of ticks
SpecPoller == InitPoller /\ [][Tick]_vars

SpecDamaged == InitDamaged /\ [][NextDamaged]_vars

\* =================================================================== claims
\* The events of one kind
Events(kind) == {e \in hist : e.kind = kind}

\* The events of user u in tick k
EventsOf(u, k) == {e \in hist : e.user = u /\ e.tick = k}

\* The local time of chat c at the latest clock reading
LocalNow(c) == NowIn(get_group_settings(settings, c).timezone, clock)

\* The poller stands between two ticks, after at least one
BetweenTicks == phase = "idle" /\ ticks >= 1

\* The date string names a day before the day of local time now
DateBefore(date_str, now) == \E d \in 0..(DayOf(now) - 1) : DateStr(d) = date_str

\* Saturday or Sunday, counted from the epoch's Thursday
SatOrSun(now) == (DayOf(now) + 3) % 7 \in {5, 6}

ExemptByLeave(r, now) == r.leave_until = DateStr(DayOf(now))

ExemptByWeekend(r, now) ==
    r.plan_type = "habit" /\ r.habit_exempt_weekends /\ SatOrSun(now)

ExpiredHabit(r, now) ==
    r.plan_type = "habit" /\ r.habit_end_date # NULL /\ DateBefore(r.habit_end_date, now)

\* ---------------------------------------------------------------------- C1
\* The restrictions and good-night messages of row r's user on the local day of
\* time now
MutesOn(r, now) ==
    {e \in Events("restrict_ok") : e.user = r.user_id /\ DayOf(e.now) = DayOf(now)}

NoticesOn(r, now) ==
    {e \in Events("mute_msg_ok") : e.user = r.user_id /\ DayOf(e.now) = DayOf(now)}

\* Row r's sleep minute of today lies wholly between the poller's first fire time
\* and its latest clock reading; r is not exempt today, was not converted, is not
\* a too-short plan, and no platform call for its user failed.
SleepMinutePassed(r) ==
    LET tz == get_group_settings(settings, r.chat_id).timezone
        now == NowIn(tz, clock)
        first == NowIn(tz, nominal - ticks * PollInterval)
        minute == DayOf(now) * DaySecs + r.sleep_time[1] * 3600 + r.sleep_time[2] * 60
    IN  /\ BetweenTicks
        /\ first <= minute
        /\ minute + 60 <= now
        /\ ~ExemptByLeave(r, now) /\ ~ExemptByWeekend(r, now) /\ ~ExpiredHabit(r, now)
        /\ \A e \in hist : e.user = r.user_id =>
              /\ e.kind \notin {"convert", "short_call"}
              /\ e.kind = "restrict_call" =>
                    \E f \in Events("mute_msg_ok") : f.user = e.user /\ f.tick = e.tick

\* C1: over any sequence of ticks, each occurrence of a schedule's sleep_time on
\* a day where the schedule is not exempt triggers the mute (restrict and
\* notification) exactly once: never twice, and never zero times once the
\* minute has passed.
C1_MuteExactlyOnce ==
    \A r \in store :
        /\ Cardinality(MutesOn(r, LocalNow(r.chat_id))) <= 1
        /\ SleepMinutePassed(r) =>
              /\ Cardinality(MutesOn(r, LocalNow(r.chat_id))) = 1
              /\ Cardinality(NoticesOn(r, LocalNow(r.chat_id))) = 1

C3_NoShortRestrict ==
    \A e \in hist :
        /\ e.kind = "restrict_call" => e.until - e.now >= MinMuteSeconds
        /\ e.kind = "short_call" =>
              /\ e.until - e.now < MinMuteSeconds
              /\ \A f \in EventsOf(e.user, e.tick) :
                    f.kind \notin {"restrict_call", "restrict_ok", "mute_msg_ok"}

\* The 'too short' notice was sent for a schedule whose wake time was less than
\* 30 seconds away.
C3_Witness ==
    \E e \in Events("short_ok") : e.until > e.now /\ e.until - e.now < MinMuteSeconds

\* ---------------------------------------------------------------------- C4
\* C4 as claimed: a schedule with sleep_time = wake_time, evaluated in its sleep
\* minute, is downgraded to the 'too short' notice and never really muted.
C4_SameTimeTooShort ==
    \A e \in hist :
        e.kind \in {"restrict_call", "short_call"} /\ e.row.sleep_time = e.row.wake_time
            => e.kind = "short_call"

\* C4 as amended: a schedule with sleep_time = wake_time, evaluated in its sleep
\* minute, is really muted, until the same clock time of the next day (24 hours
\* after the start of the current minute); it is never downgraded.
C4_SameTimeFullDay ==
    \A e \in hist :
        e.kind \in {"restrict_call", "short_call"} /\ e.row.sleep_time = e.row.wake_time
            => /\ e.kind = "restrict_call"
               /\ e.until = e.now - (e.now % 60) + DaySecs

\* A schedule with sleep_time = wake_time was muted at second 0 of its minute.
C4_Witness ==
    \E e \in Events("restrict_ok") :
        e.row.sleep_time = e.row.wake_time /\ e.now % 60 = 0

\* ---------------------------------------------------------------------- C5
\* C5: when the mute fires at now, wake_datetime is wake_time at second 0 of
\* today, or of tomorrow when that instant is not after now: it is strictly
\* after now and at most 24 hours after it (sleep 23:00 / wake 07:00 evaluated at
\* 23:00 of day D gives 07:00 of day D+1).
C5_WakeDatetime ==
    \A e \in hist :
        e.kind \in {"restrict_call", "short_call"} =>
            /\ e.until % DaySecs = e.row.wake_time[1] * 3600 + e.row.wake_time[2] * 60
            /\ e.until > e.now
            /\ e.until - e.now <= DaySecs
            /\ e.row.sleep_time = <<23, 0>> /\ e.row.wake_time = <<7, 0>>
                  => e.until = (DayOf(e.now) + 1) * DaySecs + 7 * 3600

\* A 23:00 / 07:00 schedule was muted in its sleep minute until the next day.
C5_Witness ==
    \E e \in Events("restrict_ok") :
        /\ e.row.sleep_time = <<23, 0>> /\ e.row.wake_time = <<7, 0>>
        /\ NowHHMM(e.now) = <<23, 0>>
        /\ DayOf(e.until) = DayOf(e.now) + 1

C7_LeaveSkips ==
    \A e \in hist :
        (ExemptByLeave(e.row, e.now) \/ e.kind = "skip_leave") =>
            /\ e.kind = "skip_leave"
            /\ ExemptByLeave(e.row, e.now)
            /\ EventsOf(e.user, e.tick) = {e}

\* A schedule on leave today was skipped in its sleep minute, in a chat whose
\* local date differs from the UTC date, and its row is unchanged.
C7_Witness ==
    \E e \in Events("skip_leave") :
        /\ NowHHMM(e.now) = e.row.sleep_time
        /\ DayOf(e.now) # DayOf(clock)
        /\ e.row \in store

\* ---------------------------------------------------------------------- C8
\* C8: a habit schedule with exempt_weekends evaluated on a local Saturday or
\* Sunday gets no action, also in its sleep minute; a normal schedule or a habit
\* schedule without exempt_weekends is never skipped for the weekend and is
\* muted (or told 'too short') in its sleep minute of a weekend day.
C8_WeekendExemption ==
    /\ \A e \in hist :
          /\ ExemptByWeekend(e.row, e.now) => e.kind \in {"skip_weekend", "skip_leave"}
          /\ e.kind = "skip_weekend" =>
                ExemptByWeekend(e.row, e.now) /\ EventsOf(e.user, e.tick) = {e}
    /\ BetweenTicks =>
          \A r \in store :
              LET now == LocalNow(r.chat_id)
              IN  /\ r.plan_type = "normal" \/ ~r.habit_exempt_weekends
                  /\ SatOrSun(now)
                  /\ NowHHMM(now) = r.sleep_time
                  /\ ~ExemptByLeave(r, now) /\ ~ExpiredHabit(r, now)
                  /\ \A e \in EventsOf(r.user_id, ticks) : e.kind # "convert"
                  => \E e \in EventsOf(r.user_id, ticks) :
                        e.kind \in {"restrict_call", "short_call"}

\* On a Saturday a weekend-exempt habit schedule was skipped in its sleep minute.
C8_Witness ==
    \E e \in Events("skip_weekend") :
        NowHHMM(e.now) = e.row.sleep_time /\ (DayOf(e.now) + 3) % 7 = 5

\* ---------------------------------------------------------------------- C9
\* The step is a /leave that reached apply_leave_day.
LeaveApplied ==
    /\ cmds' = cmds + 1
    /\ last'.cmd = "leave"
    /\ last'.result \in {"success_habit", "no_days_left", "success_normal", "no_plan"}

\* The table with row r replaced by row q
Replaced(table, r, q) == (table \ {r}) \cup {q}

LeaveOutcome ==
    LET before == last'.before
        date_str == last'.arg
    IN  /\ before \subseteq store
        /\ date_str \in {TodayStr(NowIn(tz, clock)) : tz \in {"UTC", "Asia/Shanghai"}}
        /\ before = {} <=> last'.result = "no_plan"
        /\ before = {} => store' = store
        /\ \A r \in before :
              /\ r.plan_type = "habit"
                   /\ r.habit_used_leave_days < r.habit_total_leave_days
                   => /\ last'.result = "success_habit"
                      /\ store' = Replaced(store, r,
                            [r EXCEPT !.leave_until = date_str,
                                      !.habit_used_leave_days = r.habit_used_leave_days + 1])
              /\ r.plan_type = "habit"
                   /\ r.habit_used_leave_days >= r.habit_total_leave_days
                   => /\ last'.result = "no_days_left"
                      /\ store' = store
              /\ r.plan_type = "normal"
                   => /\ last'.result = "success_normal"
                      /\ store' = Replaced(store, r, [r EXCEPT !.leave_until = date_str])

\* C9: a leave day applied to a habit schedule with used < total sets
\* leave_until to the given date, adds exactly 1 to used_leave_days and returns
\* success_habit; with used >= total it returns no_days_left and leaves the
\* record unchanged; on a normal schedule it returns success_normal and only
\* sets leave_until; with no schedule it returns no_plan and writes nothing.
C9_ApplyLeaveDay == [][LeaveApplied => LeaveOutcome]_vars

\* A leave day was granted to a habit schedule with used = 2 of total = 3, which
\* now has used = 3.
C9_Witness ==
    /\ last.cmd = "leave"
    /\ last.result = "success_habit"
    /\ \E r \in last.before : r.habit_used_leave_days = 2 /\ r.habit_total_leave_days = 3
    /\ \E r \in last.after : r.habit_used_leave_days = 3 /\ r.leave_until = last.arg

\* --------------------------------------------------------------------- C10
\* C10: after any sequence of set, habit dialogue, leave, remove, admin remove
\* operations and ticks, every stored schedule has
\* 0 <= used_leave_days <= total_leave_days.
C10_LeaveBudget ==
    \A r \in store :
        /\ 0 <= r.habit_used_leave_days
        /\ r.habit_used_leave_days <= r.habit_total_leave_days

\* A /leave was refused for a habit schedule whose budget is used up.
C10_Witness ==
    /\ last.cmd = "leave"
    /\ last.result = "no_days_left"
    /\ \E r \in store :
          /\ r \in last.before
          /\ r.habit_total_leave_days > 0
          /\ r.habit_used_leave_days = r.habit_total_leave_days

OwnerCommands == {"set", "remove", "leave", "habit", "habit_times", "habit_duration",
                  "habit_leave_days", "habit_weekend", "cancel"}

\* Rows r and q hold the same plan: times, leave budget, weekend option, end date
SamePlan(r, q) ==
    /\ q.user_id = r.user_id
    /\ q.plan_type = r.plan_type
    /\ q.sleep_time = r.sleep_time
    /\ q.wake_time = r.wake_time
    /\ q.habit_total_leave_days = r.habit_total_leave_days
    /\ q.habit_exempt_weekends = r.habit_exempt_weekends
    /\ q.habit_end_date = r.habit_end_date

ScheduleCreated ==
    /\ cmds' = cmds + 1
    /\ \/ last'.cmd = "set" /\ last'.result = "ok"
       \/ last'.cmd = "habit_weekend" /\ last'.result = "END"

\* Row q carries nothing of an earlier record.
FreshRow(q) ==
    /\ q.leave_until = NULL
    /\ q.reminder_sent_date = NULL
    /\ q.is_muted = 0
    /\ q.habit_used_leave_days = 0
    /\ q.plan_type = "normal" =>
          /\ q.habit_total_leave_days = 0
          /\ ~q.habit_exempt_weekends
          /\ q.habit_end_date = NULL

\* C13: in every state there is at most one schedule per user_id, and a step
\* that creates a schedule (normal or habit) for a user leaves exactly one
\* record of that user, the new one with no field of the old one, and leaves
\* the records of the other users alone.
C13_OneSchedulePerUser ==
    /\ [](\A r \in store, q \in store : r.user_id = q.user_id => r = q)
    /\ [][ScheduleCreated =>
            /\ Cardinality(last'.after) = 1
            /\ \A q \in last'.after :
                  /\ FreshRow(q)
                  /\ store' = (store \ last'.before) \cup {q}
                  /\ \A r \in last'.before : r.user_id = q.user_id]_vars

\* /set replaced a schedule that had a reminder date marked; the user has one
\* record, the new one.
C13_Witness ==
    /\ last.cmd = "set"
    /\ last.result = "ok"
    /\ \E r \in last.before : r.reminder_sent_date # NULL /\ r \notin store
    /\ \E q \in last.after : get_schedule(store, q.user_id) = {q}

\* --------------------------------------------------------------------- C14
\* Tick k has come to its end.
TickOver(k) == k < ticks \/ (k = ticks /\ phase = "idle")

\* The calls of tick k that raised: a call event without the event of its return
FailedCalls(k) ==
    {e \in hist :
        /\ e.tick = k
        /\ \/ e.kind = "reminder_call" /\ ~\E f \in EventsOf(e.user, k) :
                                              f.kind \in {"reminder_ok", "reminder_unmarked"}
           \/ e.kind = "restrict_call" /\ ~\E f \in EventsOf(e.user, k) :
                                              f.kind = "restrict_ok"
           \/ e.kind = "short_call" /\ ~\E f \in EventsOf(e.user, k) : f.kind = "short_ok"
           \/ e.kind = "restrict_ok" /\ ~\E f \in EventsOf(e.user, k) :
                                            f.kind = "mute_msg_ok"
           \/ e.kind \in {"reminder_unmarked", "mute_error"}}

LostReminders ==
    {e \in Events("reminder_call") :
        /\ ~(phase = "await_reminder" /\ e.tick = ticks /\ Head(rowq).user_id = e.user)
        /\ ~\E f \in Events("reminder_ok") : f.user = e.user /\ f.tick >= e.tick}

\* C15: if the reminder's send_message fails, reminder_sent_date is left as it
\* was, and the reminder is not tried again in the same tick.
C15_FailedReminderNotMarked ==
    /\ \A e \in LostReminders :
          \A r \in store : r.user_id = e.user =>
              r.reminder_sent_date = e.row.reminder_sent_date
    /\ \A e \in Events("reminder_call"), f \in Events("reminder_call") :
          e.user = f.user /\ e.tick = f.tick => e = f

\* The reminder of the latest tick failed: the date is not marked, and the tick
\* went on to the mute logic for the user.
C15_Witness ==
    /\ BetweenTicks
    /\ \E e \in LostReminders :
          /\ e.tick = ticks
          /\ \E r \in store : r.user_id = e.user /\ r.reminder_sent_date # TodayStr(e.now)
          /\ \E f \in EventsOf(e.user, ticks) : f.kind = "no_mute"

\* --------------------------------------------------------------------- C16
\* The zone name is one the zone database knows.
KnownZone(name) == name \in {"UTC", "Asia/Shanghai"}

\* The zone name stored for chat c
StoredZone(c) == get_group_settings(settings, c).timezone

\* C16: a chat whose stored zone name is unrecognized when the tick reaches it
\* has every schedule skipped, with no action and no store mutation; a chat
\* whose zone is recognized then (also one corrected by /init just before) is
\* evaluated; and in a tick that skips a chat the schedules of all other chats
\* are still evaluated.
C16_UnknownZoneSkipped ==
    /\ [][cmds' = cmds =>
            \A e \in hist' \ hist :
                /\ e.kind = "skip_zone" <=> ~KnownZone(StoredZone(e.row.chat_id))
                /\ e.kind = "skip_zone" =>
                      /\ EventsOf(e.user, e.tick)' = {e}
                      /\ \A r \in store : r.user_id = e.user => r \in store']_vars
    /\ [](\A e \in Events("skip_zone") :
            TickOver(e.tick) =>
                \A r \in store :
                    r.chat_id # e.row.chat_id => EventsOf(r.user_id, e.tick) # {})

\* Tick 1 skipped user 1, whose chat had an unknown zone, and muted user 2 of
\* the other chat; then /init set the zone, and tick 2 muted user 1.
C16_Witness ==
    /\ BetweenTicks
    /\ last.cmd = "init"
    /\ last.result = "ok"
    /\ \E e \in Events("skip_zone"), f \in Events("restrict_ok"),
          g \in Events("restrict_ok") :
          /\ e.user = 1 /\ e.tick = 1
          /\ f.user = 2 /\ f.tick = 1 /\ f.row.chat_id # e.row.chat_id
          /\ g.user = 1 /\ g.tick = 2 /\ g.row = e.row

\* --------------------------------------------------------------------- C17
\* The stored time is a valid HH:MM.
ValidTime(s) == s \in (0..23) \X (0..59)

MuteKinds == {"restrict_call", "restrict_ok", "short_call", "short_ok", "mute_msg_ok"}

\* C17: a schedule whose stored sleep_time or wake_time is not a valid HH:MM
\* gets no mute in a tick (and with a bad sleep_time no reminder either), and
\* the tick goes on: by its end every other schedule has been evaluated.
C17_MalformedTimeSkipped ==
    \A e \in hist :
        /\ e.kind \in MuteKinds => ValidTime(e.row.sleep_time) /\ ValidTime(e.row.wake_time)
        /\ e.kind \in {"reminder_call", "reminder_ok"} => ValidTime(e.row.sleep_time)
        /\ e.kind = "bad_time" => ~ValidTime(e.row.sleep_time)
        /\ e.kind = "mute_error" => ~ValidTime(e.row.wake_time)
        /\ e.kind \in {"bad_time", "mute_error"} /\ TickOver(e.tick) =>
              \A r \in store : r.user_id # e.user => EventsOf(r.user_id, e.tick) # {}

\* In the latest tick user 1's wake_time failed to parse in the sleep minute,
\* and user 2, after user 1 in the same chat, was muted; or user 1's sleep_time
\* failed to parse, likewise.
C17_Witness ==
    /\ BetweenTicks
    /\ \E e \in Events("mute_error"), f \in Events("restrict_ok") :
          /\ e.user = 1 /\ f.user = 2
          /\ e.tick = ticks /\ f.tick = ticks
          /\ e.row.chat_id = f.row.chat_id
          /\ NowHHMM(e.now) = e.row.sleep_time

\* --------------------------------------------------------------------- C18
\* Event e is about a normal plan with sleep 23:00 / wake 07:00 that is not on
\* leave on the day of the event.
NightPlan(e) ==
    /\ e.row.plan_type = "normal"
    /\ e.row.sleep_time = <<23, 0>>
    /\ e.row.wake_time = <<7, 0>>
    /\ ~ExemptByLeave(e.row, e.now)

\* C18: for a normal plan with sleep 23:00 / wake 07:00 the tick at local 22:45
\* calls the reminder, the tick at local 23:00 calls restrict with until = 07:00
\* of the next day, and once the restriction is in place no tick before that
\* until time does anything further for the user; every restriction the poller
\* issues ends by itself at a time after now (no lift call).
C18_SelfExpiringMute ==
    \A e \in hist :
        /\ e.kind \in {"restrict_call", "restrict_ok"} => e.until > e.now
        /\ NightPlan(e) =>
              /\ NowHHMM(e.now) = <<22, 45>> /\ e.row.reminder_sent_date # TodayStr(e.now)
                    => \E f \in EventsOf(e.user, e.tick) : f.kind = "reminder_call"
              /\ NowHHMM(e.now) = <<23, 0>>
                    => \E f \in EventsOf(e.user, e.tick) :
                          /\ f.kind = "restrict_call"
                          /\ f.until = (DayOf(e.now) + 1) * DaySecs + 7 * 3600
              /\ e.kind = "restrict_ok"
                    => \A f \in hist :
                          f.user = e.user /\ f.tick > e.tick /\ f.now < e.until
                            => f.kind = "no_mute"

\* --------------------------------------------------------------------- C19
\* The local dates of today in the zones of the model, at the latest clock
\* reading
TodayDates == {TodayStr(NowIn(tz, clock)) : tz \in {"UTC", "Asia/Shanghai"}}

\* C19: a leave granted for local date D exempts that day alone: a /leave sets
\* leave_until to today's date D, also when it was D already; a tick skips the
\* schedule for leave exactly when its local date is leave_until; and on a later
\* date the schedule is enforced again without any further write (a normal plan
\* is muted in its sleep minute).
C19_LeaveOneDay ==
    /\ [](\A e \in hist :
            e.row.leave_until # NULL =>
                /\ e.kind = "skip_leave" <=> e.row.leave_until = DateStr(DayOf(e.now))
                /\ /\ DateBefore(e.row.leave_until, e.now)
                   /\ e.row.plan_type = "normal"
                   /\ NowHHMM(e.now) = e.row.sleep_time
                   => \E f \in EventsOf(e.user, e.tick) :
                         f.kind \in {"restrict_call", "short_call"})
    /\ [][LeaveApplied /\ last'.result \in {"success_normal", "success_habit"} =>
            /\ last'.arg \in TodayDates
            /\ \A q \in last'.after : q.leave_until = last'.arg /\ q \in store']_vars

\* User 1 took leave on 2026-10-30; the tick of that day skipped the schedule,
\* and the tick at 00:00 of the next day muted the user, the record unchanged.
C19_Witness ==
    /\ last.cmd = "leave"
    /\ last.result = "success_normal"
    /\ last.arg = DateStr(1)
    /\ \E e \in Events("skip_leave"), f \in Events("restrict_ok") :
          /\ e.row \in last.after
          /\ f.row = e.row
          /\ f.row \in store
          /\ f.tick > e.tick
          /\ DayOf(e.now) = 1
          /\ DayOf(f.now) = 2

\* --------------------------------------------------------------------- C20
\* The sender of the /admin_remove recorded in rec was the chat's creator, or an
\* administrator of a chat whose admin_can_break_habit flag is set in table
Overrides(rec, table) ==
    IF rec.arg = NULL THEN FALSE
    ELSE \/ rec.arg.role = "creator"
         \/ /\ rec.arg.role = "administrator"
            /\ \E g \in table : g.chat_id = rec.arg.chat_id /\ g.admin_can_break_habit

\* C20: a habit schedule's record is deleted by no tick and by no command of
\* its owner: a step after which a user with a habit schedule has no record is
\* an /admin_remove sent by the chat's creator, or by an administrator of a chat
\* with admin_can_break_habit set; an /admin_remove by anyone else leaves the
\* store unchanged.
C20_HabitDeletedOnlyByOverride ==
    /\ [][\A r \in store :
              r.plan_type = "habit" /\ get_schedule(store', r.user_id) = {} =>
                  /\ cmds' = cmds + 1
                  /\ last'.cmd = "admin_remove"
                  /\ last'.result = "removed"
                  /\ Overrides(last', settings)]_vars
    /\ [][cmds' = cmds + 1 /\ last'.cmd = "admin_remove" /\ ~Overrides(last', settings)
            => store' = store /\ last'.result \in {"denied", "private"}]_vars

\* An administrator of chat 20, where admin_can_break_habit is set, removed a
\* habit schedule.
C20_Witness ==
    /\ last.cmd = "admin_remove"
    /\ last.result = "removed"
    /\ last.arg # NULL
    /\ \E r \in last.before : r.plan_type = "habit" /\ get_schedule(store, r.user_id) = {}
    /\ IF last.arg = NULL THEN FALSE
       ELSE last.arg.role = "administrator" /\ last.arg.chat_id = 20

\* --------------------------------------------------------------------- C21
\* The events of a schedule the evaluator left alone for an exemption
SkipKinds == {"skip_leave", "skip_weekend"}

\* User u was skipped for an exemption in every tick after tick a and before
\* tick k.
StillDeferred(u, a, k) ==
    \A i \in (a + 1)..(k - 1) : \E g \in EventsOf(u, i) : g.kind \in SkipKinds

Converted == {e \in hist' \ hist : e.kind = "convert"}

Advance ==
    { <<"END", "GET_HABIT_TIMES", "habit">>,
      <<"GET_HABIT_TIMES", "GET_HABIT_DURATION", "habit_times">>,
      <<"GET_HABIT_DURATION", "GET_LEAVE_DAYS", "habit_duration">>,
      <<"GET_LEAVE_DAYS", "GET_WEEKEND_OPTION", "habit_leave_days">>,
      <<"GET_WEEKEND_OPTION", "END", "habit_weekend">> }

DialogueCmds == {a[3] : a \in Advance} \cup {"cancel"}

\* The step is a command of the habit dialogue.
DialogueStep == cmds' # cmds /\ last'.cmd \in DialogueCmds

\* A row but for what /leave and the reminder write into it
PlanOf(r) ==
    [r EXCEPT !.leave_until = NULL, !.habit_used_leave_days = 0,
              !.reminder_sent_date = NULL]

\* The habit schedules the step writes
HabitWritten ==
    {q \in store' : q.plan_type = "habit" /\ \A r \in store : PlanOf(r) # PlanOf(q)}

Pending ==
    {rowq[n] : n \in 1..Len(rowq)}
        \cup UNION {{groups[g].rows[n] : n \in 1..Len(groups[g].rows)}
                        : g \in 1..Len(groups)}

\* The plan a user's record holds: all but the reminder's date mark
PlanIn(table, u) ==
    {[r EXCEPT !.reminder_sent_date = NULL] : r \in get_schedule(table, u)}

\* The latest command removed or replaced the record of user u that the tick in
\* progress had fetched, and the command's result is what the store holds.
ChangedUnderTick(u) ==
    /\ last.cmd \in {"remove", "admin_remove", "set", "habit_weekend"}
    /\ last.before # last.after
    /\ \E s \in Pending : s.user_id = u /\ s \in last.before
    /\ get_schedule(store, u) = last.after

====
